---- MODULE Spec2Model ----
(***************************************************************************)
(* Persistence layer of rdp_api: the relational store (Location, City,     *)
(* Device, ValueType, Value) and the Crud operations on it.                *)
(*                                                                         *)
(* Spec       : the writes, each call one step, from the empty store.      *)
(* SpecIngest : add_value on a store with two devices.                     *)
(* SpecQuery  : add_value and get_values on that store.                    *)
(* SpecDevice : add_value and get_values_by_device on that store.          *)
(* SpecTypes  : the ValueType upsert on its own, with named types.         *)
(* SpecConc   : add_value calls of two workers, interleaved at the         *)
(*              statements that reach the store.                           *)
(***************************************************************************)
EXTENDS Integers, Sequences, FiniteSets, TLC

VARIABLES
    locations,   \* table "location":   set of [id, name]
    cities,      \* table "city":       set of [id, name, location_id]
    devices,     \* table "device":     set of [id, name, description, city_id]
    valueTypes,  \* table "value_type": set of [id, type_name, type_unit]
    values,      \* table "value":      set of [id, time, value, value_type_id, device_id]
    last,        \* the last call made and what it returned or raised
    lastAdded,   \* the arguments of the latest write if it was a successful add_value
    pc,          \* SpecConc: where each worker stands inside add_value
    call,        \* SpecConc: the arguments of each worker's add_value call
    dbType,      \* SpecConc: each worker's db_type object
    res          \* SpecConc: the outcome of each worker's add_value call

vars == <<locations, cities, devices, valueTypes, values, last, lastAdded, pc, call, dbType, res>>

store == <<locations, cities, devices, valueTypes, values>>

\* ---------------------------------------------------------------- bounds

MaxLocations == 1
MaxCities == 1
MaxDevices == 2
MaxValues == 2
MaxTypes == 3

\* ---------------------------------------------------------------- inputs

\* Python's None and a supplied argument.
None == <<>>
Some(x) == <<x>>

Opt(S) == {None} \cup {Some(x) : x \in S}

TypeIds == {0, 7}
Times == {0, 1}
Floats == {1, 2}
DeviceNames == {"a", "b"}
LookupNames == {"a", "b", "ghost"}
LocationRefs == 1..(MaxLocations + 1)
CityRefs == 1..(MaxCities + 1)
DeviceRefs == 1..(MaxDevices + 1)
TypeNames == {"", "Temp"}
TypeUnits == {"", "C"}
Workers == {1, 2}

\* ---------------------------------------------------------------- store

Ids(rows) == {r.id : r \in rows}

SetMax(S) == CHOOSE m \in S : \A x \in S : x <= m

\* An integer primary key the caller leaves out: the store assigns the next rowid.
NextId(rows) == IF rows = {} THEN 1 ELSE SetMax(Ids(rows)) + 1

\* Whether the store enforces the ForeignKey(...) columns.
ForeignKeysEnforced == TRUE

\* The constraint declared over the primary key instead of device_id: it never fires.
value_integrity_on_id(vals, t, vt, d) ==
    \E r \in vals : r.time = t /\ r.value_type_id = vt /\ r.id = NextId(vals)

\* UniqueConstraint("time", "value_type_id", "device_id", name="value_integrity")
value_integrity(vals, t, vt, d) ==
    \E r \in vals : r.time = t /\ r.value_type_id = vt /\ r.device_id = d

Ok(rows) == [status |-> "ok", violated |-> "", rows |-> rows]
Raise(exc, what, rows) == [status |-> exc, violated |-> what, rows |-> rows]

\* INSERT INTO value: the outcome and the table afterwards.
InsertValue(vals, types, devs, t, vt, v, d) ==
    IF value_integrity(vals, t, vt, d)
    THEN Raise("IntegrityError", "value_integrity", vals)
    ELSE IF ForeignKeysEnforced /\ (vt \notin Ids(types) \/ d \notin Ids(devs))
    THEN Raise("IntegrityError", "FOREIGN KEY", vals)
    ELSE Ok(vals \cup {[id |-> NextId(vals), time |-> t, value |-> v,
                        value_type_id |-> vt, device_id |-> d]})

\* INSERT INTO city
InsertCity(cs, locs, name, location_id) ==
    IF ForeignKeysEnforced /\ location_id \notin Ids(locs)
    THEN Raise("IntegrityError", "FOREIGN KEY", cs)
    ELSE Ok(cs \cup {[id |-> NextId(cs), name |-> name, location_id |-> location_id]})

\* INSERT INTO device
InsertDevice(devs, cs, name, description, city_id) ==
    IF ForeignKeysEnforced /\ city_id \notin Ids(cs)
    THEN Raise("IntegrityError", "FOREIGN KEY", devs)
    ELSE Ok(devs \cup {[id |-> NextId(devs), name |-> name,
                        description |-> description, city_id |-> city_id]})

\* ---------------------------------------------------------------- ValueType upsert

\* Python truthiness of an optional string: None and "" are false.
Truthy(s) == s # None /\ s[1] # ""

\* "TYPE_%d" % value_type_id
FormatD(prefix, id) == prefix \o ToString(id[1])

\* The select filtering on a column no row matches: the row is never loaded.
SelectValueType_never_found(types, id) ==
    [loaded |-> FALSE, id |-> id, type_name |-> None, type_unit |-> None, dirty |-> {}]

\* select(ValueType).where(ValueType.id == value_type_id); a fresh ValueType(id=...)
\* when no row matches. ValueType.id == None compares with NULL and matches no row.
SelectValueType(types, id) ==
    IF id # None /\ id[1] \in Ids(types)
    THEN LET r == CHOOSE x \in types : x.id = id[1]
         IN [loaded |-> TRUE, id |-> id, type_name |-> Some(r.type_name),
             type_unit |-> Some(r.type_unit), dirty |-> {}]
    ELSE [loaded |-> FALSE, id |-> id, type_name |-> None, type_unit |-> None, dirty |-> {}]

\* The assignment with a plain `else:` for `elif not db_type.type_name:`.
NewName_plain_else(current, given, prefix, id) ==
    IF Truthy(given) THEN given
    ELSE IF id = None THEN Some("TypeError") ELSE Some(FormatD(prefix, id))

\* The name to store; NameRaises tells when "%d" % None raises TypeError instead.
NewName(current, given, prefix, id) ==
    IF Truthy(given) THEN given
    ELSE IF ~Truthy(current)
    THEN (IF id = None THEN Some("TypeError") ELSE Some(FormatD(prefix, id)))
    ELSE current

NameRaises(current, given, id) == ~Truthy(given) /\ ~Truthy(current) /\ id = None

\* session.add_all([db_type]); session.commit(): a loaded row is UPDATEd in the columns
\* assigned a new value, a fresh object is INSERTed.
CommitValueType(types, obj) ==
    IF obj.loaded
    THEN Ok({IF r.id = obj.id[1]
             THEN [id |-> r.id,
                   type_name |-> IF "type_name" \in obj.dirty
                                 THEN obj.type_name[1] ELSE r.type_name,
                   type_unit |-> IF "type_unit" \in obj.dirty
                                 THEN obj.type_unit[1] ELSE r.type_unit]
             ELSE r : r \in types})
    ELSE IF obj.id # None /\ obj.id[1] \in Ids(types)
    THEN Raise("IntegrityError", "PRIMARY KEY", types)
    ELSE Ok(types \cup {[id |-> IF obj.id = None THEN NextId(types) ELSE obj.id[1],
                         type_name |-> obj.type_name[1], type_unit |-> obj.type_unit[1]]})

\* Lines 44-51: the assignments to db_type.
AssignNames(obj, id, name, unit) ==
    LET n == NewName(obj.type_name, name, "TYPE_", id)
        u == NewName(obj.type_unit, unit, "UNIT_", id)
    IN  [obj EXCEPT !.type_name = n, !.type_unit = u,
                    !.dirty = {c \in {"type_name"} : n # obj.type_name}
                              \cup {c \in {"type_unit"} : u # obj.type_unit}]

\* The whole of add_or_update_value_type on the table `types`.
add_or_update_value_type(types, id, name, unit) ==
    LET obj == SelectValueType(types, id)
    IN  IF NameRaises(obj.type_name, name, id) \/ NameRaises(obj.type_unit, unit, id)
        THEN Raise("TypeError", "", types)
        ELSE CommitValueType(types, AssignNames(obj, id, name, unit))

\* ---------------------------------------------------------------- queries

SeqsOf(S) ==
    {f \in [1..Cardinality(S) -> S] : \A i, j \in 1..Cardinality(S) : i # j => f[i] # f[j]}

\* get_values testing `if end:` instead of `if end is not None:`.
GetValuesRows_truthy_end(vals, types, value_type_id, start, end) ==
    {v \in vals :
        /\ value_type_id # None =>
              \E t \in types : t.id = v.value_type_id /\ t.id = value_type_id[1]
        /\ start # None => v.time >= start[1]
        /\ (end # None /\ end[1] # 0) => v.time <= end[1]}

\* get_values with a half-open range, time < end.
GetValuesRows_half_open(vals, types, value_type_id, start, end) ==
    {v \in vals :
        /\ value_type_id # None =>
              \E t \in types : t.id = v.value_type_id /\ t.id = value_type_id[1]
        /\ start # None => v.time >= start[1]
        /\ end # None => v.time < end[1]}

\* The rows get_values selects.
GetValuesRows(vals, types, value_type_id, start, end) ==
    {v \in vals :
        /\ value_type_id # None =>
              \E t \in types : t.id = v.value_type_id /\ t.id = value_type_id[1]
        /\ start # None => v.time >= start[1]
        /\ end # None => v.time <= end[1]}

\* ORDER BY value.time: every order of the rows that ascends in time.
OrderByTime(S) ==
    {f \in SeqsOf(S) : \A i, j \in DOMAIN f : i < j => f[i].time <= f[j].time}

\* session.query(Device).filter(Device.name == device_name).first(): the rows it may
\* return. The query has no ORDER BY, so any matching row may come first.
FirstDeviceNamed(devs, device_name) ==
    IF device_name = None \/ {d \in devs : d.name = device_name[1]} = {}
    THEN {None}
    ELSE {Some(d) : d \in {x \in devs : x.name = device_name[1]}}

\* ---------------------------------------------------------------- Spec

NoCall == [op |-> "none", args |-> <<>>, status |-> "ok", violated |-> "", rows |-> <<>>]

Called(op, args, out, rows) ==
    [op |-> op, args |-> args, status |-> out.status, violated |-> out.violated, rows |-> rows]

InitStore ==
    /\ locations = {}
    /\ cities = {}
    /\ devices = {}
    /\ valueTypes = {}
    /\ values = {}

InitWorkers ==
    /\ pc = [w \in Workers |-> "idle"]
    /\ call = [w \in Workers |-> None]
    /\ dbType = [w \in Workers |-> None]
    /\ res = [w \in Workers |-> None]

Init == InitStore /\ InitWorkers /\ last = NoCall /\ lastAdded = None

CreateLocation ==
    /\ Cardinality(locations) < MaxLocations
    /\ locations' = locations \cup {[id |-> NextId(locations), name |-> "loc"]}
    /\ last' = Called("create_location", <<"loc">>, Ok({}), <<>>)
    /\ lastAdded' = None
    /\ UNCHANGED <<cities, devices, valueTypes, values, pc, call, dbType, res>>

CreateCity ==
    \E location_id \in LocationRefs :
        LET out == InsertCity(cities, locations, "city", location_id)
        IN  /\ Cardinality(out.rows) <= MaxCities
            /\ cities' = out.rows
            /\ last' = Called("create_city", <<"city", location_id>>, out, <<>>)
            /\ lastAdded' = None
            /\ UNCHANGED <<locations, devices, valueTypes, values, pc, call, dbType, res>>

AddDevice ==
    \E name \in DeviceNames, city_id \in CityRefs :
        LET out == InsertDevice(devices, cities, name, "desc", city_id)
        IN  /\ Cardinality(out.rows) <= MaxDevices
            /\ devices' = out.rows
            /\ last' = Called("add_device", <<name, "desc", city_id>>, out, <<>>)
            /\ lastAdded' = None
            /\ UNCHANGED <<locations, cities, valueTypes, values, pc, call, dbType, res>>

\* add_value: the ValueType is committed by add_or_update_value_type in a session of
\* its own, then the Value is inserted and committed.
AddValueOver(F, D) ==
    \E t \in Times, vt \in TypeIds, v \in F, d \in D :
        LET up == add_or_update_value_type(valueTypes, Some(vt), None, None)
            out == IF up.status = "ok"
                   THEN InsertValue(values, up.rows, devices, t, vt, v, d)
                   ELSE Raise(up.status, up.violated, values)
        IN  /\ Cardinality(out.rows) <= MaxValues
            /\ valueTypes' = up.rows
            /\ values' = out.rows
            /\ last' = Called("add_value", [time |-> t, type |-> vt, value |-> v, device |-> d],
                              out, <<>>)
            /\ lastAdded' = IF out.status = "ok"
                            THEN Some([time |-> t, type |-> vt, value |-> v, device |-> d])
                            ELSE None
            /\ UNCHANGED <<locations, cities, devices, pc, call, dbType, res>>

AddValue == AddValueOver(Floats, DeviceRefs)

\* add_value of one value for the devices of the store.
AddStoredDeviceValue == AddValueOver({1}, Ids(devices))

GetValues ==
    \E value_type_id \in Opt(TypeIds), start \in Opt(Times), end \in Opt(Times) :
        \E rows \in OrderByTime(GetValuesRows(values, valueTypes, value_type_id, start, end)) :
            /\ last' = Called("get_values", [type |-> value_type_id, start |-> start, end |-> end],
                              Ok({}), rows)
            /\ UNCHANGED <<store, lastAdded, pc, call, dbType, res>>

\* get_values_by_device answering an unknown name with no rows instead of raising.
get_values_by_device_no_raise(vals, device_id, device_name, first) ==
    IF device_id # None
    THEN Ok({v \in vals : v.device_id = device_id[1]})
    ELSE IF device_name # None
    THEN IF first = None
         THEN Ok({})
         ELSE Ok({v \in vals : v.device_id = first[1].id})
    ELSE Raise("ValueError", "", {})

\* Crud.get_values_by_device; `first` is the row .first() returned, None for no row.
get_values_by_device(vals, device_id, device_name, first) ==
    IF device_id # None
    THEN Ok({v \in vals : v.device_id = device_id[1]})
    ELSE IF device_name # None
    THEN IF first = None
         THEN Raise("NoResultFound", "", {})
         ELSE Ok({v \in vals : v.device_id = first[1].id})
    ELSE Raise("ValueError", "", {})

GetValuesByDevice ==
    \E device_id \in Opt(DeviceRefs), device_name \in Opt(LookupNames) :
        \E first \in FirstDeviceNamed(devices, device_name) :
            LET out == get_values_by_device(values, device_id, device_name, first)
            IN  \E rows \in SeqsOf(out.rows) :
                    /\ last' = Called("get_values_by_device",
                                      [device_id |-> device_id, device_name |-> device_name],
                                      out, rows)
                    /\ UNCHANGED <<store, lastAdded, pc, call, dbType, res>>

\* main.read_values_by_device: the status the handler answers with.
read_values_by_device(device_id, device_name, out) ==
    IF device_id = None /\ device_name = None THEN Raise("HTTP 400", "", {})
    ELSE IF out.status = "NoResultFound" THEN Raise("HTTP 404", "", {})
    ELSE IF out.status = "ValueError" THEN Raise("HTTP 400", "", {})
    ELSE out

ReadValuesByDevice ==
    \E device_id \in Opt(DeviceRefs), device_name \in Opt(LookupNames) :
        \E first \in FirstDeviceNamed(devices, device_name) :
            LET out == read_values_by_device(device_id, device_name,
                           get_values_by_device(values, device_id, device_name, first))
            IN  \E rows \in SeqsOf(out.rows) :
                    /\ last' = Called("read_values_by_device",
                                      [device_id |-> device_id, device_name |-> device_name],
                                      out, rows)
                    /\ UNCHANGED <<store, lastAdded, pc, call, dbType, res>>

Next ==
    \/ CreateLocation
    \/ CreateCity
    \/ AddDevice
    \/ AddValue

Spec == Init /\ [][Next]_vars

\* ---------------------------------------------------------------- SpecIngest, SpecQuery, SpecDevice

\* A store in which Spec has created one location, one city and the devices a and b.
InitQuery ==
    /\ locations = {[id |-> 1, name |-> "loc"]}
    /\ cities = {[id |-> 1, name |-> "city", location_id |-> 1]}
    /\ devices = {[id |-> 1, name |-> "a", description |-> "desc", city_id |-> 1],
                  [id |-> 2, name |-> "b", description |-> "desc", city_id |-> 1]}
    /\ valueTypes = {}
    /\ values = {}
    /\ InitWorkers
    /\ last = NoCall
    /\ lastAdded = None

\* Ingestion alone: add_value with every argument, for stored and missing devices.
NextIngest == AddValue

SpecIngest == InitQuery /\ [][NextIngest]_vars

\* Ingestion and get_values.
NextQuery ==
    \/ AddStoredDeviceValue
    \/ GetValues

SpecQuery == InitQuery /\ [][NextQuery]_vars

\* Ingestion and the lookup by device.
NextDevice ==
    \/ AddStoredDeviceValue
    \/ GetValuesByDevice
    \/ ReadValuesByDevice

SpecDevice == InitQuery /\ [][NextDevice]_vars

\* ---------------------------------------------------------------- SpecTypes

\* The row add_or_update_value_type returns.
ReturnedType(types, before, id) ==
    LET rid == IF id = None THEN NextId(before) ELSE id[1]
    IN  <<CHOOSE r \in types : r.id = rid>>

AddOrUpdateValueType ==
    \E id \in Opt(TypeIds), name \in Opt(TypeNames), unit \in Opt(TypeUnits) :
        LET out == add_or_update_value_type(valueTypes, id, name, unit)
            args == [id |-> id, name |-> name, unit |-> unit]
        IN  /\ Cardinality(out.rows) <= MaxTypes
            /\ valueTypes' = out.rows
            /\ last' = [op |-> "add_or_update_value_type", args |-> args,
                        status |-> out.status, violated |-> out.violated,
                        rows |-> IF out.status = "ok"
                                 THEN ReturnedType(out.rows, valueTypes, id) ELSE <<>>,
                        repeated |-> last.op = "add_or_update_value_type" /\ last.args = args]
            /\ UNCHANGED <<locations, cities, devices, values, lastAdded, pc, call, dbType, res>>

\* Crud.get_value_type
GetValueType ==
    \E id \in TypeIds :
        LET found == {r \in valueTypes : r.id = id}
        IN  /\ last' = [op |-> "get_value_type", args |-> [id |-> Some(id)],
                        status |-> IF found = {} THEN "NoResultFound" ELSE "ok",
                        violated |-> "",
                        rows |-> IF found = {} THEN <<>> ELSE <<CHOOSE r \in found : TRUE>>,
                        repeated |-> FALSE]
            /\ UNCHANGED <<store, lastAdded, pc, call, dbType, res>>

InitTypes ==
    /\ InitStore
    /\ InitWorkers
    /\ last = [op |-> "none", args |-> <<>>, status |-> "ok", violated |-> "",
               rows |-> <<>>, repeated |-> FALSE]
    /\ lastAdded = None

NextTypes ==
    \/ AddOrUpdateValueType
    \/ GetValueType

SpecTypes == InitTypes /\ [][NextTypes]_vars

\* ---------------------------------------------------------------- SpecConc

\* A worker calls add_value(time, type, value, device) for a stored device.
Call(w) ==
    /\ pc[w] = "idle"
    /\ \E t \in Times, vt \in TypeIds, v \in Floats, d \in Ids(devices) :
          call' = [call EXCEPT ![w] = Some([time |-> t, type |-> vt, value |-> v,
                                            device |-> d])]
    /\ pc' = [pc EXCEPT ![w] = "select_type"]
    /\ UNCHANGED <<store, last, lastAdded, dbType, res>>

\* add_or_update_value_type, lines 38-43: the select and the fresh object.
SelectType(w) ==
    /\ pc[w] = "select_type"
    /\ dbType' = [dbType EXCEPT ![w] = Some(SelectValueType(valueTypes, Some(call[w][1].type)))]
    /\ pc' = [pc EXCEPT ![w] = "commit_type"]
    /\ UNCHANGED <<store, last, lastAdded, call, res>>

\* add_or_update_value_type, lines 44-54: the assignments and the commit. An
\* IntegrityError leaves add_value at line 66.
CommitType(w) ==
    /\ pc[w] = "commit_type"
    /\ LET id == Some(call[w][1].type)
           out == CommitValueType(valueTypes, AssignNames(dbType[w][1], id, None, None))
       IN  /\ valueTypes' = out.rows
           /\ res' = [res EXCEPT ![w] = Some([status |-> out.status,
                                              violated |-> out.violated,
                                              wrote |-> out.rows # valueTypes])]
           /\ pc' = [pc EXCEPT ![w] = IF out.status = "ok" THEN "insert_value" ELSE "done"]
    /\ UNCHANGED <<locations, cities, devices, values, last, lastAdded, call, dbType>>

\* add_value, lines 67-74: the Value row and the commit.
CommitValue(w) ==
    /\ pc[w] = "insert_value"
    /\ LET a == call[w][1]
           out == InsertValue(values, valueTypes, devices, a.time, a.type, a.value, a.device)
       IN  /\ values' = out.rows
           /\ res' = [res EXCEPT ![w] = Some([status |-> out.status,
                                              violated |-> out.violated,
                                              wrote |-> res[w][1].wrote \/ out.rows # values])]
    /\ pc' = [pc EXCEPT ![w] = "done"]
    /\ UNCHANGED <<locations, cities, devices, valueTypes, last, lastAdded, call, dbType>>

NextConc ==
    \E w \in Workers :
        \/ Call(w)
        \/ SelectType(w)
        \/ CommitType(w)
        \/ CommitValue(w)

SpecConc == InitQuery /\ [][NextConc]_vars

\* ---------------------------------------------------------------- properties

RowsOfTriple(vals, t, vt, d) ==
    {r \in vals : r.time = t /\ r.value_type_id = vt /\ r.device_id = d}

Range(f) == {f[i] : i \in DOMAIN f}

\* C1: an add_value whose (time, value_type, device_id) triple is already stored raises
\* IntegrityError on the value_integrity constraint and leaves the value table as it
\* was, so the triple keeps its one row with the value first stored; no two rows ever
\* share a triple.
C1_DuplicateRejected ==
    [][(/\ last'.op = "add_value"
        /\ RowsOfTriple(values, last'.args.time, last'.args.type, last'.args.device) # {})
       => /\ last'.status = "IntegrityError"
          /\ last'.violated = "value_integrity"
          /\ values' = values
          /\ Cardinality(RowsOfTriple(values', last'.args.time, last'.args.type,
                                      last'.args.device)) = 1
          /\ \A r1, r2 \in values' :
                (r1.time = r2.time /\ r1.value_type_id = r2.value_type_id
                    /\ r1.device_id = r2.device_id) => r1 = r2]_vars

\* A second add_value of a stored triple with another value has been rejected.
C1_Witness ==
    /\ last.op = "add_value"
    /\ last.status = "IntegrityError"
    /\ last.violated = "value_integrity"
    /\ \E r \in RowsOfTriple(values, last.args.time, last.args.type, last.args.device) :
          r.value # last.args.value

\* C4: add_value with a device_id that is no Device and create_city with a location_id
\* that is no Location raise IntegrityError and insert no row in any table; every
\* Value.device_id is a Device and every City.location_id is a Location.
C4_DanglingRejected ==
    [][/\ (last'.op = "add_value" /\ last'.args.device \notin Ids(devices))
            => (last'.status = "IntegrityError" /\ store' = store)
       /\ (last'.op = "create_city" /\ last'.args[2] \notin Ids(locations))
            => (last'.status = "IntegrityError" /\ store' = store)
       /\ \A v \in values' : v.device_id \in Ids(devices')
       /\ \A c \in cities' : c.location_id \in Ids(locations')]_vars

\* C8 as stated: get_values(type, time, time) after a successful
\* add_value(time, type, value, device), with no write in between, returns exactly
\* one row, the inserted one.
C8_ExactlyOneRow ==
    [][(/\ lastAdded # None
        /\ last'.op = "get_values"
        /\ last'.args = [type |-> Some(lastAdded[1].type), start |-> Some(lastAdded[1].time),
                         end |-> Some(lastAdded[1].time)])
       => /\ Len(last'.rows) = 1
          /\ last'.rows[1].time = lastAdded[1].time
          /\ last'.rows[1].value_type_id = lastAdded[1].type
          /\ last'.rows[1].value = lastAdded[1].value
          /\ last'.rows[1].device_id = lastAdded[1].device]_vars

\* C8 amended: the result holds exactly one row of the inserted device, equal to the
\* inserted value, and one row for every stored Value of that time and type; it is a
\* single row when no other device holds a Value of that time and type.
C8_OneRowPerDevice ==
    [][(/\ lastAdded # None
        /\ last'.op = "get_values"
        /\ last'.args = [type |-> Some(lastAdded[1].type), start |-> Some(lastAdded[1].time),
                         end |-> Some(lastAdded[1].time)])
       => LET rows == last'.rows
              mine == {i \in DOMAIN rows : rows[i].device_id = lastAdded[1].device}
              others == {v \in values : /\ v.time = lastAdded[1].time
                                        /\ v.value_type_id = lastAdded[1].type
                                        /\ v.device_id # lastAdded[1].device}
          IN  /\ Cardinality(mine) = 1
              /\ \A i \in mine : /\ rows[i].time = lastAdded[1].time
                                 /\ rows[i].value_type_id = lastAdded[1].type
                                 /\ rows[i].value = lastAdded[1].value
              /\ Len(rows) = 1 + Cardinality(others)
              /\ Range(rows) \ {rows[i] : i \in mine} = others
              /\ (others = {} => Len(rows) = 1)]_vars

\* get_values(type, time, time) has answered after a successful add_value of
\* that time and type, in a store where another device holds the same time and type.
C8_Witness ==
    /\ lastAdded # None
    /\ last.op = "get_values"
    /\ last.args = [type |-> Some(lastAdded[1].type), start |-> Some(lastAdded[1].time),
                    end |-> Some(lastAdded[1].time)]
    /\ Len(last.rows) = 2
    /\ last.rows[1].device_id # last.rows[2].device_id

\* C9: get_values returns exactly the stored rows that pass every supplied filter
\* (value_type_id equal, time >= start, time <= end, a bound of 0 included), each once,
\* in ascending order of time, and leaves the store unchanged.
C9_GetValues ==
    [][last'.op = "get_values"
       => LET a == last'.args
              rows == last'.rows
          IN  /\ Range(rows) = {v \in values :
                                  /\ a.type # None => v.value_type_id = a.type[1]
                                  /\ a.start # None => v.time >= a.start[1]
                                  /\ a.end # None => v.time <= a.end[1]}
              /\ Len(rows) = Cardinality(Range(rows))
              /\ \A i, j \in DOMAIN rows : i < j => rows[i].time <= rows[j].time
              /\ last'.status = "ok"
              /\ store' = store]_vars

\* get_values with start = 0 and a type has returned two rows in ascending order of
\* time, the reverse of the order they were inserted in.
C9_Witness ==
    /\ last.op = "get_values"
    /\ last.args.start = Some(0)
    /\ last.args.type # None
    /\ Len(last.rows) = 2
    /\ last.rows[1].time < last.rows[2].time
    /\ last.rows[1].id > last.rows[2].id

\* C10: get_values_by_device raises ValueError with neither argument (HTTP 400 from
\* the handler), NoResultFound with only a device_name no Device has (HTTP 404),
\* returns exactly the rows of one Device of that name with only a matching
\* device_name, exactly the rows with that device_id with only a device_id, and never
\* changes the store.
C10_ValuesByDevice ==
    [][last'.op \in {"get_values_by_device", "read_values_by_device"}
       => LET a == last'.args
              rows == last'.rows
              crud == last'.op = "get_values_by_device"
              named == IF a.device_name = None THEN {}
                       ELSE {d \in devices : d.name = a.device_name[1]}
          IN  /\ store' = store
              /\ Len(rows) = Cardinality(Range(rows))
              /\ (a.device_id = None /\ a.device_name = None)
                    => last'.status = (IF crud THEN "ValueError" ELSE "HTTP 400")
              /\ (a.device_id = None /\ a.device_name # None /\ named = {})
                    => last'.status = (IF crud THEN "NoResultFound" ELSE "HTTP 404")
              /\ (a.device_id = None /\ a.device_name # None /\ named # {})
                    => /\ last'.status = "ok"
                       /\ \E d \in named : Range(rows) = {v \in values : v.device_id = d.id}
              /\ (a.device_id # None /\ a.device_name = None)
                    => /\ last'.status = "ok"
                       /\ Range(rows) = {v \in values : v.device_id = a.device_id[1]}]_vars

\* A lookup by a name alone has returned the rows of the device of that name while
\* another device holds rows too.
C10_Witness ==
    /\ last.op = "get_values_by_device"
    /\ last.args.device_id = None
    /\ last.args.device_name = Some("b")
    /\ last.status = "ok"
    /\ Len(last.rows) = 1
    /\ Cardinality(values) = 2

Upsert(l) == l.op = "add_or_update_value_type"

Given(s) == s # None /\ s # Some("")

\* C5: add_or_update_value_type with a supplied id succeeds, and a call that repeats the
\* call before it (same id, name and unit) changes no row and returns the same row; with
\* name and unit omitted and no row of that id, the row gets "TYPE_<id>" and "UNIT_<id>".
C5_UpsertIdempotent ==
    [][(Upsert(last') /\ last'.args.id # None)
       => /\ last'.status = "ok"
          /\ last'.repeated
                => /\ valueTypes' = valueTypes
                   /\ last'.rows = last.rows
          /\ (/\ last'.args.name = None /\ last'.args.unit = None
              /\ last'.args.id[1] \notin Ids(valueTypes))
                => \/ /\ last'.args.id = Some(0)
                      /\ last'.rows = <<[id |-> 0, type_name |-> "TYPE_0",
                                         type_unit |-> "UNIT_0"]>>
                   \/ /\ last'.args.id = Some(7)
                      /\ last'.rows = <<[id |-> 7, type_name |-> "TYPE_7",
                                         type_unit |-> "UNIT_7"]>>]_vars

\* add_or_update_value_type(7) has been called twice in a row and row 7 holds the
\* placeholders.
C5_Witness ==
    /\ Upsert(last)
    /\ last.repeated
    /\ last.args = [id |-> Some(7), name |-> None, unit |-> None]
    /\ [id |-> 7, type_name |-> "TYPE_7", type_unit |-> "UNIT_7"] \in valueTypes

\* C6: a call that omits name (unit) for a row whose name (unit) is set leaves that
\* name (unit) as it is; a call giving only name N followed by a call of the same id
\* giving only unit U ends with name N and unit U.
C6_PartialUpdateKeeps ==
    [][(Upsert(last') /\ last'.args.id # None)
       => /\ \A r \in valueTypes :
                r.id = last'.args.id[1]
                => /\ (last'.args.name = None /\ r.type_name # "")
                        => last'.rows[1].type_name = r.type_name
                   /\ (last'.args.unit = None /\ r.type_unit # "")
                        => last'.rows[1].type_unit = r.type_unit
          /\ (/\ Upsert(last) /\ last.args.id = last'.args.id
              /\ Given(last.args.name) /\ last.args.unit = None
              /\ last'.args.name = None /\ Given(last'.args.unit))
                => /\ last'.rows = <<[id |-> last'.args.id[1],
                                      type_name |-> last.args.name[1],
                                      type_unit |-> last'.args.unit[1]]>>
                   /\ last'.rows[1] \in valueTypes']_vars

\* add_or_update_value_type(7, unit="C") has followed a call that named the row "Temp".
C6_Witness ==
    /\ Upsert(last)
    /\ last.args = [id |-> Some(7), name |-> None, unit |-> Some("C")]
    /\ last.rows = <<[id |-> 7, type_name |-> "Temp", type_unit |-> "C"]>>

\* C7: add_or_update_value_type with the id omitted succeeds for every name and unit,
\* given or omitted, and adds exactly one row under an id no row had, leaving the other
\* rows as they were.
C7_OmittedIdCreates ==
    [][(Upsert(last') /\ last'.args.id = None)
       => /\ last'.status = "ok"
          /\ valueTypes \subseteq valueTypes'
          /\ Cardinality(valueTypes') = Cardinality(valueTypes) + 1
          /\ \A r \in valueTypes' \ valueTypes : r.id \notin Ids(valueTypes)]_vars

Failed(w) == pc[w] = "done" /\ res[w][1].status # "ok"

Succeeded(w) == pc[w] = "done" /\ res[w][1].status = "ok"

SameTriple(a, b) == a.time = b.time /\ a.type = b.type /\ a.device = b.device

\* C2: add_value is one transaction: a call that has failed has written no row, and
\* no ValueType row is in the store without a Value row of the call that created it.
C2_AddValueAtomic ==
    /\ \A w \in Workers : Failed(w) => ~res[w][1].wrote
    /\ \A t \in valueTypes : \E v \in values : v.value_type_id = t.id

\* C3: of two add_value calls for one triple, run in any interleaving, one succeeds and
\* the other raises IntegrityError, having written nothing; the triple has exactly one
\* row.
C3_OneSurvives ==
    \A w1, w2 \in Workers :
        (/\ w1 # w2 /\ pc[w1] = "done" /\ pc[w2] = "done"
         /\ SameTriple(call[w1][1], call[w2][1]))
        => /\ Succeeded(w1) \/ Succeeded(w2)
           /\ Succeeded(w1) => /\ res[w2][1].status = "IntegrityError"
                               /\ ~res[w2][1].wrote
           /\ Cardinality(RowsOfTriple(values, call[w1][1].time, call[w1][1].type,
                                       call[w1][1].device)) = 1

\* C11: two add_value calls with different triples that name the same ValueType id,
\* not stored before, for stored devices, run in any interleaving, both succeed; the
\* store then holds one ValueType row of that id and the Value row of each call.
C11_BothSucceed ==
    \A w1, w2 \in Workers :
        (/\ w1 # w2 /\ pc[w1] = "done" /\ pc[w2] = "done"
         /\ ~SameTriple(call[w1][1], call[w2][1])
         /\ call[w1][1].type = call[w2][1].type
         /\ call[w1][1].device \in Ids(devices)
         /\ call[w2][1].device \in Ids(devices))
        => /\ Succeeded(w1)
           /\ Succeeded(w2)
           /\ Cardinality({t \in valueTypes : t.id = call[w1][1].type}) = 1
           /\ \A w \in {w1, w2} :
                 Cardinality(RowsOfTriple(values, call[w][1].time, call[w][1].type,
                                          call[w][1].device)) = 1

====
